---- MODULE Spec2Model ----
(***************************************************************************)
(* Model of wikistats.py: the command line entry point (main), the         *)
(* all-time report (alltime) and the per-user report (peruser).            *)
(*                                                                         *)
(* Python strings that the program formats, splits or parses are modelled  *)
(* as sequences of one-character strings, so that strftime, str, zfill,    *)
(* split and int are computed character by character.  The two Cyrillic    *)
(* words of the redirect pattern are spelled with named characters         *)
(* ("cyr_ve", "cyr_i", "cyr_zhe" and their capitals).  A None or empty     *)
(* Python value that the program only tests for truth is the empty         *)
(* sequence.                                                               *)
(*                                                                         *)
(* The wiki client (pywikibot) is the environment: it yields user records  *)
(* and contributions one at a time and may raise at any call.  The asof    *)
(* and namespaces arguments are handed to it unchanged and take no part in *)
(* the counting, so they are not represented.                              *)
(***************************************************************************)
EXTENDS Integers, Sequences, FiniteSets, TLC

VARIABLES
    pc,                   \* position of the program
    args,                 \* argparse namespace built by main
    since,                \* the `since` parameter bound in alltime / peruser
    fetch_end,            \* `end=` bound of the last contributions() call
    listing,              \* user records yielded so far by wiki.allusers()
    alltime_active_users, \* alltime: names with editcount > 0
    active_users,         \* alltime: dict user -> count, in insertion order
    user_idx,             \* alltime: position of the second for loop
    ncontrib,             \* records yielded by the running contributions()
    fetched,              \* alltime: every <<user, title>> the source yielded
    started,              \* alltime: users whose contributions() was called
    finished,             \* alltime: users whose contributions() is exhausted
    au_list,              \* alltime: the sorted list
    out,                  \* alltime: printed lines <<count, user>>
    stats,                \* peruser: the three count mappings
    seen,                 \* peruser: every contribution the source yielded
    text_fetches          \* peruser: number of getOldVersion() calls

vars == <<pc, args, since, fetch_end, listing, alltime_active_users,
          active_users, user_idx, ncontrib, fetched, started, finished,
          au_list, out, stats, seen, text_fetches>>

alltime_vars == <<listing, alltime_active_users, active_users, user_idx,
                  fetched, started, finished, au_list, out>>

peruser_vars == <<stats, seen, text_fetches>>

---------------------------------------------------------------------------
(* Bounds of the model *)

\* number of users of the wiki
MaxUsers == 2

\* most contributions one contributions() call yields in an all-time run
MaxUserContribs == 2

\* most contributions the contributions() call of a per-user run yields
MaxContribs == 2

---------------------------------------------------------------------------
(* Program constants *)

None == "None"

ALLTIME_FROM_DATE == "2017-07-01T00:00:00Z"

PERUSER_FROM_DATE == "2008-12-01T00:00:00Z"

MAXCONTRIB == 10000

---------------------------------------------------------------------------
(* Python string and date primitives *)

DigitChars == <<"0", "1", "2", "3", "4", "5", "6", "7", "8", "9">>

\* str(n) for a natural number n
RECURSIVE str(_)
str(n) == IF n < 10 THEN <<DigitChars[n + 1]>>
          ELSE str(n \div 10) \o <<DigitChars[(n % 10) + 1]>>

\* s.zfill(width)
RECURSIVE zfill(_, _)
zfill(s, width) == IF Len(s) >= width THEN s ELSE zfill(<<"0">> \o s, width)

\* int(s) for a string of decimal digits
RECURSIVE int(_)
int(s) == IF Len(s) = 0 THEN 0
          ELSE 10 * int(SubSeq(s, 1, Len(s) - 1))
               + (CHOOSE d \in 0..9 : DigitChars[d + 1] = s[Len(s)])

\* s.split(sep) for a one-character separator
RECURSIVE split(_, _)
split(s, sep) ==
    IF \A i \in 1..Len(s) : s[i] # sep THEN <<s>>
    ELSE LET k == CHOOSE i \in 1..Len(s) :
                      s[i] = sep /\ \A j \in 1..(i - 1) : s[j] # sep
         IN <<SubSeq(s, 1, k - 1)>> \o split(SubSeq(s, k + 1, Len(s)), sep)

IsLeap(y) == y % 4 = 0 /\ (y % 100 # 0 \/ y % 400 = 0)

DaysInMonth(y, m) ==
    IF m = 2 THEN (IF IsLeap(y) THEN 29 ELSE 28)
    ELSE IF m \in {4, 6, 9, 11} THEN 30 ELSE 31

RECURSIVE DaysBeforeMonth(_, _)
DaysBeforeMonth(y, m) ==
    IF m = 1 THEN 0 ELSE DaysBeforeMonth(y, m - 1) + DaysInMonth(y, m - 1)

DaysBeforeYear(y) ==
    (y - 1) * 365 + ((y - 1) \div 4) - ((y - 1) \div 100) + ((y - 1) \div 400)

\* proleptic Gregorian ordinal of a date
Ymd2Ord(y, m, d) == DaysBeforeYear(y) + DaysBeforeMonth(y, m) + d

\* ordinal of the Monday that starts ISO week 1 of year y
IsoWeek1Monday(y) ==
    LET firstday == Ymd2Ord(y, 1, 1)
        firstweekday == (firstday + 6) % 7
        week1monday == firstday - firstweekday
    IN IF firstweekday > 3 THEN week1monday + 7 ELSE week1monday

\* timestamp.isocalendar()[1]
IsoWeek(ts) ==
    LET today == Ymd2Ord(ts.year, ts.month, ts.day)
        week == (today - IsoWeek1Monday(ts.year)) \div 7
    IN IF week < 0
       THEN ((today - IsoWeek1Monday(ts.year - 1)) \div 7) + 1
       ELSE IF week >= 52 /\ today >= IsoWeek1Monday(ts.year + 1)
            THEN 1
            ELSE week + 1

\* contrib[2].strftime('%Y')
strftime_Y(ts) == zfill(str(ts.year), 4)

\* contrib[2].strftime('%m')
strftime_m(ts) == zfill(str(ts.month), 2)

\* str(contrib[2].isocalendar()[1]).zfill(2)
week_of(ts) == zfill(str(IsoWeek(ts)), 2)

---------------------------------------------------------------------------
(* The redirect pattern r'^\s*#(виж|redirect)\s+\[\[' with flags=re.I *)

UpperChars == <<"R", "E", "D", "I", "C", "T", "CYR_VE", "CYR_I", "CYR_ZHE">>

LowerChars == <<"r", "e", "d", "i", "c", "t", "cyr_ve", "cyr_i", "cyr_zhe">>

\* variant of Lower: the pattern is matched without re.I
Lower_sensitive(c) == c

\* case folding of re.I on one character
Lower(c) ==
    IF \E i \in 1..Len(UpperChars) : UpperChars[i] = c
    THEN LowerChars[CHOOSE i \in 1..Len(UpperChars) : UpperChars[i] = c]
    ELSE c

\* the class \s
IsSpace(c) == c \in {" ", "\t", "\n", "\r"}

\* the alternatives of the group (виж|redirect)
RedirectWords == <<
    <<"cyr_ve", "cyr_i", "cyr_zhe">>,
    <<"r", "e", "d", "i", "r", "e", "c", "t">> >>

\* position after a greedy run of \s starting at position i
RECURSIVE SkipSpaces(_, _)
SkipSpaces(s, i) ==
    IF i <= Len(s) /\ IsSpace(s[i]) THEN SkipSpaces(s, i + 1) ELSE i

\* the literal word w matches s at position i, ignoring case
WordAt(s, i, w) ==
    /\ i + Len(w) - 1 <= Len(s)
    /\ \A k \in 1..Len(w) : Lower(s[i + k - 1]) = w[k]

\* re.match(pattern, text, flags=re.I) is not None
re_match(text) ==
    LET i == SkipSpaces(text, 1)
    IN /\ i <= Len(text)
       /\ text[i] = "#"
       /\ \E n \in 1..Len(RedirectWords) :
            LET w == RedirectWords[n]
                j == i + 1 + Len(w)
                k == SkipSpaces(text, j)
            IN /\ WordAt(text, i + 1, w)
               /\ k > j
               /\ k + 1 <= Len(text)
               /\ text[k] = "["
               /\ text[k + 1] = "["

---------------------------------------------------------------------------
(* Inputs of the model *)

Min(a, b) == IF a < b THEN a ELSE b

AllNames == <<"Alice", "Bob", "Carol", "Dave", "Eve">>

\* the users of the wiki
UserNames == {AllNames[i] : i \in 1..Min(MaxUsers, Len(AllNames))}

EditCounts == {0, 1}

Titles == {"Main", "Sandbox"}

Date(y, m, d) == [year |-> y, month |-> m, day |-> d]

Text_plain == <<"H", "i">>

Text_redirect == <<"#", "R", "E", "D", "I", "R", "E", "C", "T", " ", "[", "[">>

Text_vizh == <<" ", "#", "cyr_ve", "CYR_I", "cyr_zhe", "\t", " ", "[", "[">>

Text_nospace == <<"#", "r", "e", "d", "i", "r", "e", "c", "t", "[", "[">>

Text_inner == <<"H", " ", "#", "r", "e", "d", "i", "r", "e", "c", "t", " ", "[", "[">>

Contrib(t, r, o, x, ts) ==
    [title |-> t, revid |-> r, oldest_revid |-> o, oldest_text |-> x,
     timestamp |-> ts]

\* the contribution records the source may yield in a per-user run
Contribs == {
    Contrib("Main", 11, 11, Text_plain, Date(2019, 1, 15)),
    Contrib("Main", 12, 11, Text_plain, Date(2020, 1, 10)),
    Contrib("Main", 13, 11, Text_plain, Date(2020, 3, 20)),
    Contrib("Sandbox", 21, 21, Text_plain, Date(2020, 1, 10)),
    Contrib("Sandbox", 22, 21, Text_plain, Date(2020, 3, 20)),
    Contrib("Redir", 31, 31, Text_redirect, Date(2020, 3, 20)),
    Contrib("Redir", 32, 31, Text_redirect, Date(2019, 12, 30)),
    Contrib("Vizh", 41, 41, Text_vizh, Date(2020, 1, 10)),
    Contrib("Glued", 51, 51, Text_nospace, Date(2020, 3, 20)),
    Contrib("Inner", 62, 61, Text_inner, Date(2019, 1, 15)) }

\* values of --since
SinceChoices == {None, "2019-01-01T00:00:00Z"}

\* values of --month-stats-since: absent, or "2020-02"
MonthChoices == {<<>>, <<"2", "0", "2", "0", "-", "0", "2">>}

\* values of --week-stats-since: absent, or "2020-05"
WeekChoices == {<<>>, <<"2", "0", "2", "0", "-", "0", "5">>}

\* values of --exclude-pages: absent, or one page
ExcludeChoices == {<<>>, <<"Sandbox">>}

---------------------------------------------------------------------------
(* peruser *)

\* `if x:` for a string, a list or None
Truthy(x) == Len(x) > 0

\* `x in xs` for a list
In(x, xs) == \E i \in 1..Len(xs) : xs[i] = x

\* try: d[k] += 1 / except KeyError: d[k] = 1
Inc(d, k) ==
    IF k \in DOMAIN d THEN [d EXCEPT ![k] = @ + 1]
    ELSE [x \in (DOMAIN d) \cup {k} |-> IF x = k THEN 1 ELSE d[x]]

EmptyStats == [years |-> <<>>, months |-> <<>>, weeks |-> <<>>]

\* variant of Excluded: the membership test is negated
Excluded_negated(title, excludes) ==
    Truthy(excludes) /\ ~In(title, excludes)

\* variant of NotCreated: the revision ids are compared for equality
NotCreated_equal(c, created_only) == created_only /\ c.revid = c.oldest_revid

\* the three filters at the head of the loop body
Excluded(title, excludes) == Truthy(excludes) /\ In(title, excludes)

NotCreated(c, created_only) == created_only /\ c.revid # c.oldest_revid

\* the body reaches the getOldVersion() call
GetsOldVersion(c, created_only, include_redirects, excludes) ==
    /\ ~Excluded(c.title, excludes)
    /\ ~NotCreated(c, created_only)
    /\ ~include_redirects

\* the cutoff gate of lines 67-72 and 78-83: TRUE when it says `continue`
CutoffSkips(year, part, cutoff) ==
    /\ Truthy(cutoff)
    /\ \/ int(year) < int(split(cutoff, "-")[1])
       \/ /\ int(year) < int(split(cutoff, "-")[1])
          /\ int(part) = int(split(cutoff, "-")[2])

\* variant of peruser_body: years is incremented after the month gate
peruser_body_gated(st, c, months_since, weeks_since, created_only, incl, excludes) ==
    IF Excluded(c.title, excludes) THEN st
    ELSE IF NotCreated(c, created_only) THEN st
    ELSE IF ~incl /\ re_match(c.oldest_text) THEN st
    ELSE
      LET year == strftime_Y(c.timestamp)
          month == strftime_m(c.timestamp)
          week == week_of(c.timestamp)
          s1 == [st EXCEPT !.years = Inc(@, year)]
          s2 == [s1 EXCEPT !.months = Inc(@, year \o <<" ">> \o month)]
          s3 == [s2 EXCEPT !.weeks = Inc(@, year \o <<" ">> \o week)]
      IN IF CutoffSkips(year, month, months_since) THEN st
         ELSE IF CutoffSkips(year, week, weeks_since) THEN s2
         ELSE s3

\* one iteration of the loop of peruser: the stats after contribution c
\* (incl is the parameter include_redirects)
peruser_body(st, c, months_since, weeks_since, created_only, incl, excludes) ==
    IF Excluded(c.title, excludes) THEN st
    ELSE IF NotCreated(c, created_only) THEN st
    ELSE IF ~incl /\ re_match(c.oldest_text) THEN st
    ELSE
      LET year == strftime_Y(c.timestamp)
          month == strftime_m(c.timestamp)
          week == week_of(c.timestamp)
          s1 == [st EXCEPT !.years = Inc(@, year)]
          s2 == [s1 EXCEPT !.months = Inc(@, year \o <<" ">> \o month)]
          s3 == [s2 EXCEPT !.weeks = Inc(@, year \o <<" ">> \o week)]
      IN IF CutoffSkips(year, month, months_since) THEN s1
         ELSE IF CutoffSkips(year, week, weeks_since) THEN s2
         ELSE s3

\* the loop of peruser over a whole sequence of contributions
RECURSIVE peruser_loop(_, _, _, _, _, _)
peruser_loop(cs, months_since, weeks_since, created_only, incl, excludes) ==
    IF cs = <<>> THEN EmptyStats
    ELSE peruser_body(
             peruser_loop(SubSeq(cs, 1, Len(cs) - 1), months_since,
                          weeks_since, created_only, incl, excludes),
             cs[Len(cs)], months_since, weeks_since, created_only, incl,
             excludes)

---------------------------------------------------------------------------
(* alltime *)

\* variant of IsActive: users without edits are kept
IsActive_any(user) == user.editcount >= 0

\* `if user['editcount'] > 0`
IsActive(user) == user.editcount > 0

\* try: active_users[user] += 1 / except KeyError: active_users[user] = 1
\* on a dict kept as its items in insertion order
IncItem(d, user) ==
    IF \E i \in 1..Len(d) : d[i][1] = user
    THEN [i \in 1..Len(d) |->
             IF d[i][1] = user THEN <<user, d[i][2] + 1>> ELSE d[i]]
    ELSE Append(d, <<user, 1>>)

\* the body of the inner loop of alltime
alltime_body(d, user, title, excludes) ==
    IF Excluded(title, excludes) THEN d ELSE IncItem(d, user)

\* variant of InsertAt: x goes before the items of equal count
InsertAt_unstable(x, s) == Cardinality({i \in 1..Len(s) : s[i][2] > x[2]})

\* where a stable descending sort puts x in the sorted list s
InsertAt(x, s) == Cardinality({i \in 1..Len(s) : s[i][2] >= x[2]})

\* sorted(items, key=lambda x: x[1], reverse=True)
RECURSIVE sorted(_)
sorted(items) ==
    IF items = <<>> THEN <<>>
    ELSE LET x == items[Len(items)]
             s == sorted(SubSeq(items, 1, Len(items) - 1))
             p == InsertAt(x, s)
         IN SubSeq(s, 1, p) \o <<x>> \o SubSeq(s, p + 1, Len(s))

\* variant of LoopDone: the loop stops one user early
LoopDone_early == user_idx >= Len(alltime_active_users)

\* the second for loop of alltime has run out of users
LoopDone == user_idx > Len(alltime_active_users)

---------------------------------------------------------------------------
(* The program *)

Unset == "unset"

NoArgs == [totals |-> FALSE, since |-> None, month_stats_since |-> <<>>,
           week_stats_since |-> <<>>, created_only |-> FALSE,
           include_redirects |-> FALSE, exclude_pages |-> <<>>]

Init ==
    /\ pc = "main"
    /\ args = NoArgs
    /\ since = Unset
    /\ fetch_end = Unset
    /\ listing = <<>>
    /\ alltime_active_users = <<>>
    /\ active_users = <<>>
    /\ user_idx = 1
    /\ ncontrib = 0
    /\ fetched = <<>>
    /\ started = <<>>
    /\ finished = <<>>
    /\ au_list = <<>>
    /\ out = <<>>
    /\ stats = EmptyStats
    /\ seen = <<>>
    /\ text_fetches = 0

\* main with --totals: parse_args, then alltime(wiki, since=args.since, ...)
\* (the options of the per-user report are left at their defaults)
main_totals ==
    /\ pc = "main"
    /\ \E s \in SinceChoices, x \in ExcludeChoices :
         /\ args' = [NoArgs EXCEPT !.totals = TRUE, !.since = s,
                                   !.exclude_pages = x]
         /\ since' = s
    /\ pc' = "allusers"
    /\ UNCHANGED <<fetch_end, ncontrib>>
    /\ UNCHANGED alltime_vars
    /\ UNCHANGED peruser_vars

\* main with --user: parse_args, then peruser(wiki, since=args.since, ...)
main_user ==
    /\ pc = "main"
    /\ \E s \in SinceChoices, x \in ExcludeChoices, m \in MonthChoices,
          w \in WeekChoices, co \in BOOLEAN, ir \in BOOLEAN :
         /\ args' = [totals |-> FALSE, since |-> s, month_stats_since |-> m,
                     week_stats_since |-> w, created_only |-> co,
                     include_redirects |-> ir, exclude_pages |-> x]
         /\ since' = s
    /\ pc' = "peruser"
    /\ UNCHANGED <<fetch_end, ncontrib>>
    /\ UNCHANGED alltime_vars
    /\ UNCHANGED peruser_vars

\* first for loop of alltime: wiki.allusers() yields one more user record
allusers_next ==
    /\ pc = "allusers"
    /\ Len(listing) < MaxUsers
    /\ \E n \in UserNames, e \in EditCounts :
         LET user == [name |-> n, editcount |-> e]
         IN /\ \A i \in 1..Len(listing) : listing[i].name # n
            /\ listing' = Append(listing, user)
            /\ alltime_active_users' =
                 IF IsActive(user) THEN Append(alltime_active_users, n)
                 ELSE alltime_active_users
    /\ UNCHANGED <<pc, args, since, fetch_end, ncontrib, active_users,
                   user_idx, fetched, started, finished, au_list, out>>
    /\ UNCHANGED peruser_vars

\* wiki.allusers() is exhausted
allusers_end ==
    /\ pc = "allusers"
    /\ pc' = "user_loop"
    /\ UNCHANGED <<args, since, fetch_end, ncontrib>>
    /\ UNCHANGED alltime_vars
    /\ UNCHANGED peruser_vars

\* second for loop: next user, w_user.contributions(end=since, ...) is called
user_next ==
    /\ pc = "user_loop"
    /\ ~LoopDone
    /\ fetch_end' = since
    /\ started' = Append(started, alltime_active_users[user_idx])
    /\ ncontrib' = 0
    /\ pc' = "contrib_loop"
    /\ UNCHANGED <<args, since, listing, alltime_active_users, active_users,
                   user_idx, fetched, finished, au_list, out>>
    /\ UNCHANGED peruser_vars

\* inner loop: the source yields one more contribution of the current user
contrib_next ==
    /\ pc = "contrib_loop"
    /\ ncontrib < Min(MaxUserContribs, MAXCONTRIB)
    /\ \E t \in Titles :
         LET user == alltime_active_users[user_idx]
         IN /\ fetched' = Append(fetched, <<user, t>>)
            /\ active_users' =
                 alltime_body(active_users, user, t, args.exclude_pages)
    /\ ncontrib' = ncontrib + 1
    /\ UNCHANGED <<pc, args, since, fetch_end, listing, alltime_active_users,
                   user_idx, started, finished, au_list, out>>
    /\ UNCHANGED peruser_vars

\* inner loop: the contributions of the current user are exhausted
contrib_end ==
    /\ pc = "contrib_loop"
    /\ finished' = Append(finished, alltime_active_users[user_idx])
    /\ user_idx' = user_idx + 1
    /\ pc' = "user_loop"
    /\ UNCHANGED <<args, since, fetch_end, ncontrib, listing,
                   alltime_active_users, active_users, fetched, started,
                   au_list, out>>
    /\ UNCHANGED peruser_vars

\* au_list = sorted(...)
alltime_sort ==
    /\ pc = "user_loop"
    /\ LoopDone
    /\ au_list' = sorted(active_users)
    /\ pc' = "print"
    /\ UNCHANGED <<args, since, fetch_end, ncontrib, listing,
                   alltime_active_users, active_users, user_idx, fetched,
                   started, finished, out>>
    /\ UNCHANGED peruser_vars

\* print(c, u) for the next item of au_list
print_next ==
    /\ pc = "print"
    /\ Len(out) < Len(au_list)
    /\ LET item == au_list[Len(out) + 1]
       IN out' = Append(out, <<item[2], item[1]>>)
    /\ UNCHANGED <<pc, args, since, fetch_end, ncontrib, listing,
                   alltime_active_users, active_users, user_idx, fetched,
                   started, finished, au_list>>
    /\ UNCHANGED peruser_vars

\* alltime returns
print_end ==
    /\ pc = "print"
    /\ Len(out) = Len(au_list)
    /\ pc' = "done"
    /\ UNCHANGED <<args, since, fetch_end, ncontrib>>
    /\ UNCHANGED alltime_vars
    /\ UNCHANGED peruser_vars

\* peruser up to the for statement: user.contributions(end=since, ...)
peruser_start ==
    /\ pc = "peruser"
    /\ stats' = EmptyStats
    /\ fetch_end' = since
    /\ ncontrib' = 0
    /\ pc' = "peruser_loop"
    /\ UNCHANGED <<args, since, seen, text_fetches>>
    /\ UNCHANGED alltime_vars

\* the loop of peruser: the source yields one more contribution
peruser_next ==
    /\ pc = "peruser_loop"
    /\ ncontrib < Min(MaxContribs, MAXCONTRIB)
    /\ \E c \in Contribs :
         /\ seen' = Append(seen, c)
         /\ stats' = peruser_body(stats, c, args.month_stats_since,
                                  args.week_stats_since, args.created_only,
                                  args.include_redirects, args.exclude_pages)
         /\ text_fetches' =
              IF GetsOldVersion(c, args.created_only, args.include_redirects,
                                args.exclude_pages)
              THEN text_fetches + 1 ELSE text_fetches
    /\ ncontrib' = ncontrib + 1
    /\ UNCHANGED <<pc, args, since, fetch_end>>
    /\ UNCHANGED alltime_vars

\* the contributions are exhausted: print(json.dumps(stats, ...)), return
peruser_print ==
    /\ pc = "peruser_loop"
    /\ pc' = "done"
    /\ UNCHANGED <<args, since, fetch_end, ncontrib>>
    /\ UNCHANGED alltime_vars
    /\ UNCHANGED peruser_vars

\* an upstream call (allusers, contributions, getOldVersion) raises: the
\* exception is not caught and the process ends
fetch_error ==
    /\ pc \in {"allusers", "contrib_loop", "peruser_loop"}
    /\ pc' = "failed"
    /\ UNCHANGED <<args, since, fetch_end, ncontrib>>
    /\ UNCHANGED alltime_vars
    /\ UNCHANGED peruser_vars

Next ==
    \/ main_totals
    \/ main_user
    \/ allusers_next
    \/ allusers_end
    \/ user_next
    \/ contrib_next
    \/ contrib_end
    \/ alltime_sort
    \/ print_next
    \/ print_end
    \/ peruser_start
    \/ peruser_next
    \/ peruser_print
    \/ fetch_error

Spec == Init /\ [][Next]_vars

---------------------------------------------------------------------------
(* Vocabulary of the properties *)

\* the pages named by --exclude-pages
ExclSet == {args.exclude_pages[i] : i \in 1..Len(args.exclude_pages)}

\* the keys of the dict active_users
Names(d) == {d[i][1] : i \in 1..Len(d)}

\* position of user u in the listing of wiki.allusers()
Encounter(u) == CHOOSE i \in 1..Len(listing) : listing[i].name = u

\* contributions the source returned for u whose page is not excluded
Counted(u) ==
    Cardinality({i \in 1..Len(fetched) :
                    fetched[i][1] = u /\ fetched[i][2] \notin ExclSet})

IsPrefix(s, t) == Len(s) <= Len(t) /\ s = SubSeq(t, 1, Len(s))

RECURSIVE SumOver(_, _)
SumOver(d, keys) ==
    IF keys = {} THEN 0
    ELSE LET k == CHOOSE x \in keys : TRUE
         IN d[k] + SumOver(d, keys \ {k})

\* sum of the counts of a dict
Total(d) == SumOver(d, DOMAIN d)

Whitespace == {" ", "\t", "\n", "\r"}

\* the two spellings of each letter of the redirect words
Spellings == <<
    <<{"cyr_ve", "CYR_VE"}, {"cyr_i", "CYR_I"}, {"cyr_zhe", "CYR_ZHE"}>>,
    <<{"r", "R"}, {"e", "E"}, {"d", "D"}, {"i", "I"}, {"r", "R"},
      {"e", "E"}, {"c", "C"}, {"t", "T"}>> >>

\* text begins with the redirect marker: k white spaces, "#", one of the two
\* words in any case, n >= 1 white spaces, "[["
BeginsWithRedirectMarker(text) ==
    \E k \in 0..Len(text), n \in 1..Len(text), w \in 1..Len(Spellings) :
        LET word == Spellings[w]
            b == k + 1 + Len(word) + n
        IN /\ b + 2 <= Len(text)
           /\ \A i \in 1..k : text[i] \in Whitespace
           /\ text[k + 1] = "#"
           /\ \A i \in 1..Len(word) : text[k + 1 + i] \in word[i]
           /\ \A i \in 1..n : text[k + 1 + Len(word) + i] \in Whitespace
           /\ text[b + 1] = "["
           /\ text[b + 2] = "["

\* c passes the exclusion, created-only and redirect filters of this run
Passes(c) ==
    /\ c.title \notin ExclSet
    /\ args.created_only => c.revid = c.oldest_revid
    /\ args.include_redirects \/ ~BeginsWithRedirectMarker(c.oldest_text)

\* this step is an iteration of the loop of peruser
PeruserIteration == Len(seen') = Len(seen) + 1

\* this step is an iteration of the inner loop of alltime
AlltimeIteration == Len(fetched') = Len(fetched) + 1

\* year and month of a cutoff "YYYY-MM"
CutoffYear(cutoff) == int(SubSeq(cutoff, 1, 4))

CutoffPart(cutoff) == int(SubSeq(cutoff, 6, 7))

---------------------------------------------------------------------------
(* Properties *)

\* C1: in the all-time report, for two distinct users A and B of the output
\* with counted contributions a and b, the line of A is printed before the
\* line of B iff a > b, or a = b and A came before B in wiki.allusers().
C1_Ranking ==
    \A i, j \in 1..Len(out) :
        out[i][2] # out[j][2] =>
            LET a == Counted(out[i][2])
                b == Counted(out[j][2])
            IN (i < j) <=>
                 \/ a > b
                 \/ a = b /\ Encounter(out[i][2]) < Encounter(out[j][2])

\* a finished all-time report of two users with equal counts, one of whom
\* also had an excluded contribution
C1_Witness ==
    /\ pc = "done"
    /\ Len(out) = 2
    /\ Len(fetched) = 3
    /\ Counted(out[1][2]) = 1
    /\ Counted(out[2][2]) = 1

\* a finished all-time report where the user listed second is printed first
C1_WitnessInversion ==
    /\ pc = "done"
    /\ Len(out) = 2
    /\ Counted(out[1][2]) > Counted(out[2][2])
    /\ Encounter(out[2][2]) < Encounter(out[1][2])

\* C2: with month_cutoff "YYYY-MM", a contribution whose (year, month) is
\* earlier than the cutoff's (year, month) does not increment months.
C2_MonthCutoff ==
    [][(/\ PeruserIteration
        /\ Truthy(args.month_stats_since)
        /\ LET ts == seen'[Len(seen')].timestamp
               cy == CutoffYear(args.month_stats_since)
               cm == CutoffPart(args.month_stats_since)
           IN ts.year < cy \/ (ts.year = cy /\ ts.month < cm))
       => stats'.months = stats.months]_vars

\* C3: the weeks mapping of a per-user run is the same for every value of
\* month_cutoff, the contributions and the other parameters being fixed.
C3_WeeksIndependent ==
    (pc = "done" /\ ~args.totals) =>
        \A m \in MonthChoices :
            peruser_loop(seen, m, args.week_stats_since, args.created_only,
                         args.include_redirects, args.exclude_pages).weeks
            = stats.weeks

\* C4: every contribution passing the exclusion, created-only and redirect
\* filters increments years[its year] exactly once, whatever the cutoffs,
\* and no other contribution does; the years counts sum to the number of
\* contributions that passed.
C4_YearsCount ==
    /\ \A k \in DOMAIN stats.years :
         stats.years[k] =
           Cardinality({i \in 1..Len(seen) :
                          Passes(seen[i]) /\ seen[i].timestamp.year = int(k)})
    /\ Total(stats.years) =
         Cardinality({i \in 1..Len(seen) : Passes(seen[i])})

\* a finished per-user run with both cutoffs where two contributions passed,
\* one of them before the cutoffs
C4_Witness ==
    /\ pc = "done"
    /\ Truthy(args.month_stats_since)
    /\ Truthy(args.week_stats_since)
    /\ Len(seen) = 2
    /\ Total(stats.years) = 2
    /\ Total(stats.months) = 1
    /\ \E i \in 1..Len(seen) :
         Passes(seen[i]) /\ seen[i].timestamp.year = 2019

\* C5: a contribution whose page title is in the exclusion set changes no
\* counter, neither active_users in alltime nor years, months, weeks in
\* peruser.
C5_ExcludedNoEffect ==
    [][/\ (PeruserIteration /\ seen'[Len(seen')].title \in ExclSet)
            => stats' = stats
       /\ (AlltimeIteration /\ fetched'[Len(fetched')][2] \in ExclSet)
            => active_users' = active_users]_vars

\* an all-time run where the user already counted had an excluded
\* contribution returned last
C5_Witness ==
    /\ args.totals
    /\ Len(fetched) = 2
    /\ fetched[1][2] \notin ExclSet
    /\ fetched[2][2] \in ExclSet
    /\ fetched[1][1] = fetched[2][1]
    /\ active_users = <<<<fetched[1][1], 1>>>>

\* the same case in a per-user run
C5_WitnessPeruser ==
    /\ ~args.totals
    /\ Len(seen) = 2
    /\ Passes(seen[1])
    /\ seen[2].title \in ExclSet
    /\ Total(stats.years) = 1

\* C6: without --since the contribution fetch is bounded below by the
\* default of the mode: ALLTIME_FROM_DATE in totals mode, PERUSER_FROM_DATE
\* in per-user mode.
C6_DefaultSince ==
    (fetch_end # Unset /\ args.since = None) =>
        fetch_end = IF args.totals THEN ALLTIME_FROM_DATE
                    ELSE PERUSER_FROM_DATE

\* C7: with created_only, a contribution whose revision id differs from the
\* oldest revision id of its page increments none of years, months, weeks.
C7_CreatedOnly ==
    [][(/\ PeruserIteration
        /\ args.created_only
        /\ seen'[Len(seen')].revid # seen'[Len(seen')].oldest_revid)
       => stats' = stats]_vars

\* a created-only run where a counted creation is followed by a later edit
\* of a page that is neither excluded nor a redirect
C7_Witness ==
    /\ args.created_only
    /\ Len(seen) = 2
    /\ Passes(seen[1])
    /\ seen[2].revid # seen[2].oldest_revid
    /\ seen[2].title \notin ExclSet
    /\ ~BeginsWithRedirectMarker(seen[2].oldest_text)
    /\ Total(stats.years) = 1

\* C8: without include_redirects, a contribution to a page whose oldest
\* revision text begins with the redirect marker changes none of years,
\* months, weeks; with include_redirects it is counted when it passes the
\* other filters, and getOldVersion is not called.
C8_RedirectFilter ==
    [][PeruserIteration =>
        LET c == seen'[Len(seen')]
        IN /\ (~args.include_redirects
               /\ BeginsWithRedirectMarker(c.oldest_text))
                 => stats' = stats
           /\ args.include_redirects => text_fetches' = text_fetches
           /\ (/\ args.include_redirects
               /\ BeginsWithRedirectMarker(c.oldest_text)
               /\ c.title \notin ExclSet
               /\ args.created_only => c.revid = c.oldest_revid)
                 => Total(stats'.years) = Total(stats.years) + 1]_vars

\* a default run that counted a plain page and then met a redirect page
C8_Witness ==
    /\ ~args.totals
    /\ ~args.include_redirects
    /\ Len(seen) = 2
    /\ Passes(seen[1])
    /\ BeginsWithRedirectMarker(seen[2].oldest_text)
    /\ seen[2].title \notin ExclSet
    /\ Total(stats.years) = 1
    /\ text_fetches = 2

\* an include-redirects run that counted a redirect page
C8_WitnessInclude ==
    /\ args.include_redirects
    /\ Len(seen) = 1
    /\ BeginsWithRedirectMarker(seen[1].oldest_text)
    /\ Total(stats.years) = 1
    /\ text_fetches = 0

\* C9: in an all-time run no line is printed before the fetch and count
\* pass of every listed user is complete, a failed fetch ends the run with
\* no line printed, and the passes run one after another in listing order.
C9_NoEarlyOutput ==
    /\ out # <<>> => (finished = alltime_active_users /\ pc \in {"print", "done"})
    /\ pc = "failed" => out = <<>>
    /\ IsPrefix(started, alltime_active_users)
    /\ IsPrefix(finished, started)
    /\ Len(started) - Len(finished) \in {0, 1}
    /\ Len(started) > Len(finished) => pc \in {"contrib_loop", "failed"}

\* the fetch of the second user failed after the first user was counted
C9_Witness ==
    /\ pc = "failed"
    /\ Len(finished) = 1
    /\ Len(started) = 2
    /\ active_users # <<>>
    /\ out = <<>>

\* C10: a user is in active_users iff the user has editcount > 0 and at
\* least one non-excluded contribution was returned for them; every count
\* in active_users and every printed count is >= 1.
C10_Inclusion ==
    /\ \A i \in 1..Len(listing) :
         (listing[i].name \in Names(active_users)) <=>
             (listing[i].editcount > 0 /\ Counted(listing[i].name) >= 1)
    /\ Names(active_users) \subseteq {listing[i].name : i \in 1..Len(listing)}
    /\ \A i \in 1..Len(active_users) : active_users[i][2] >= 1
    /\ \A i \in 1..Len(out) : out[i][1] >= 1
    /\ pc = "done" => {out[i][2] : i \in 1..Len(out)} = Names(active_users)

\* a finished all-time report with a user whose contributions were all
\* excluded and a user who is printed
C10_Witness ==
    /\ pc = "done"
    /\ Len(out) = 1
    /\ \E i \in 1..Len(fetched) :
         fetched[i][1] \notin Names(active_users)

\* a finished all-time report with a printed user and a user without edits
C10_WitnessNoEdits ==
    /\ pc = "done"
    /\ Len(out) = 1
    /\ \E i \in 1..Len(listing) : listing[i].editcount = 0

====
